---- MODULE Spec2Model ----
(***************************************************************************)
(* State-machine model of hypercoast.ui.SpectralWidget                     *)
(* (src/hypercoast/ui.py): the widget's own fields, the fields it reads    *)
(* and writes on the host map, the per-layer datasets it samples, and one  *)
(* action per event handler (map interaction, layer selector, Reset, Save, *)
(* file-chooser callback, Close / cleanup()).                              *)
(*                                                                         *)
(* Coordinates are integers in units of 1e-5 degree, so that the 4-decimal *)
(* formatting of the sample key is a real rounding.  Reflectance values    *)
(* are small integers; NaN stands for numpy's nan.                         *)
(***************************************************************************)
EXTENDS Integers, Sequences, FiniteSets, TLC

----------------------------------------------------------------------------
(* Bounds of the model *)

\* most click events handled over a run (caps the marker list)
MaxClicks == 2
\* most file choosers opened by Save over a run
MaxChoosers == 2

----------------------------------------------------------------------------
(* Values *)

\* np.nan, the missing value written over negative entries
NaN == -9999

\* chooser.selected before anything was chosen (None, falsy)
NoSelection == "None"
Paths == {"a.csv", "b.csv"}

\* Control handles on the host map's control list
OutputControl == 0
SpectralControl == 1
ChooserControl(c) == c + 1

\* The empty dict {}
EmptyMap == [k \in {} |-> <<>>]

MapPut(d, k, v) == [x \in (DOMAIN d) \cup {k} |-> IF x = k THEN v ELSE d[x]]

----------------------------------------------------------------------------
(* The layers registered on the host map: host_map.cog_layer_dict.         *)
(* Layers "A" and "B" hold a reflectance variable over a 2 x 1 grid and    *)
(* differ in their wavelength coordinate; layer "C" has no reflectance     *)
(* variable.                                                               *)

LayerNames == {"A", "B", "C"}
WithReflectance == {"A", "B"}

\* latitude / longitude coordinate of every dataset, ascending, 1e-5 degree
GridLat == <<-7, 9>>
GridLon == <<0>>

\* ds["wavelengths"].values
Wavelengths(l) == IF l = "B" THEN <<450, 550>> ELSE <<400, 500>>

\* "reflectance" in ds
HasReflectance(l) == l \in WithReflectance

\* the reflectance arrays the datasets start with, per grid cell <<i, j>>
InitialReflectance ==
    [l \in WithReflectance |->
        [cell \in {<<1, 1>>, <<2, 1>>} |->
            IF l = "A"
            THEN (IF cell = <<1, 1>> THEN <<-1, 2>> ELSE <<3, -2>>)
            ELSE (IF cell = <<1, 1>> THEN <<5, 6>> ELSE <<-7, 8>>)]]

\* where the user may click: <<lat, lon>> in 1e-5 degree
ClickPoints == {<<1, 2>>, <<3, 2>>, <<-15, -2>>}
EventTypes == {"click", "mousemove"}

----------------------------------------------------------------------------
VARIABLES
    shares,          \* a selection's .values is the buffer the mask is written to
    reflectance,     \* the datasets' reflectance arrays (mutable through views)
    layer,           \* layers_widget.value
    subscribed,      \* handle_interaction is registered with host on_interaction
    controls,        \* host_map.controls
    cursor,          \* host_map.default_style["cursor"]
    hasCluster,      \* hasattr(host_map, "_plot_marker_cluster")
    clusterMarkers,  \* host_map._plot_marker_cluster.markers
    hasPlotMarkers,  \* hasattr(host_map, "_plot_markers")
    plotMarkers,     \* host_map._plot_markers
    spectralData,    \* host_map._spectral_data
    sampleLayer,     \* history: the layer each sample key was taken from
    panel,           \* contents of the output widget
    self,            \* the widget's own handles: TRUE = set, FALSE = None
    onCloseSet,      \* self.on_close is not None
    choosers,        \* file choosers created by Save so far (1..choosers)
    closedChoosers,  \* file choosers whose close() was called
    fileChooser,     \* host_map._file_chooser (0 = attribute absent)
    fileChooserControl, \* host_map._file_chooser_control (-1 = attribute absent)
    clicks,          \* history: number of click events handled
    last             \* history: the handler that ran last

vars == <<shares, reflectance, layer, subscribed, clicks,
          controls, cursor, hasCluster, clusterMarkers, hasPlotMarkers,
          plotMarkers, spectralData, sampleLayer, panel, self, onCloseSet,
          choosers, closedChoosers, fileChooser, fileChooserControl, last>>

envVars == <<shares>>
markerVars == <<hasCluster, clusterMarkers, hasPlotMarkers, plotMarkers>>
dataVars == <<spectralData, sampleLayer, reflectance>>
chooserVars == <<choosers, closedChoosers, fileChooser, fileChooserControl>>

\* fault: "none", "raised" (the exception left the handler) or "shown" (the
\* output widget caught it and displayed the traceback)
\* the remaining fields record the calls the handler made:
\*   exported  the path spectral_to_csv was called with (NoSelection: no call)
\*   asked     the remove_control calls on overlay controls, in order
\*   notified  the number of on_close() invocations
\*   view      what the on_close() invocation found
NoView == [subscribed |-> TRUE, outputOnMap |-> TRUE, spectralOnMap |-> TRUE,
           markers |-> 0, samples |-> 0]

Op(name, fault, pt, ch, sel) ==
    [op |-> name, fault |-> fault, pt |-> pt, ch |-> ch, sel |-> sel,
     exported |-> NoSelection, asked |-> <<>>, notified |-> 0, view |-> NoView]

OpChooser(c, sel, path) ==
    [Op("chooser", "none", <<0, 0>>, c, sel) EXCEPT !.exported = path]

OpClose(fault, asked, notified, view) ==
    [Op("close", fault, <<0, 0>>, 0, NoSelection) EXCEPT
        !.asked = asked, !.notified = notified, !.view = view]

NoPoint == <<0, 0>>

----------------------------------------------------------------------------
(* Pure functions of handle_interaction *)

Abs(x) == IF x < 0 THEN -x ELSE x

Digit(n, p) == ToString((n \div p) % 10)

\* The float k / 100000 is m * 2^-s with m the 53-bit integer nearest to
\* k * 2^s / 100000.  BinaryScale(k) is that s, for 0 < k <= 18000000
\* (180 degrees): 52 plus the doublings that bring k up into
\* [100000, 200000), or minus the halvings that bring it down into it.
RECURSIVE Doublings(_)
Doublings(v) ==
    IF v >= 100000 THEN 0
    ELSE IF v < 6250 THEN 4 + Doublings(16 * v)
    ELSE 1 + Doublings(2 * v)

RECURSIVE Halvings(_, _)
Halvings(k, bound) == IF k < bound THEN 0 ELSE 1 + Halvings(k, 2 * bound)

BinaryScale(k) == 52 + Doublings(k) - Halvings(k, 200000)

\* (r * 2^n) mod 100000 for r < 100000, 14 doublings at a time so that
\* no product leaves 32 bits
RECURSIVE DoubleMod(_, _)
DoubleMod(r, n) ==
    IF n < 14 THEN (r * 2^n) % 100000
    ELSE DoubleMod((r * 16384) % 100000, n - 14)

\* (k * 2^s) mod 100000: 0 when the float is exactly k / 100000, below
\* 50000 when the float lies below it, above 50000 when it lies above
\* (50000 itself cannot occur: 2^5 divides k * 2^s)
FloatRemainder(k) == DoubleMod(k % 100000, BinaryScale(k))

\* the magnitude of the float k / 100000 rounded to 4 decimals, in 1e-4:
\* off a decimal tie the float's error cannot change the nearest value; on
\* a tie (last digit 5) the float decides, and an exactly representable
\* tie goes to the even neighbour
Round4(k) ==
    IF k % 10 # 5 THEN (k + 5) \div 10
    ELSE LET rem == FloatRemainder(k)
             up == IF rem = 0 THEN (k \div 10) % 2 = 1 ELSE rem > 50000
         IN  (k \div 10) + (IF up THEN 1 ELSE 0)

\* f"{x:.4f}" of x (1e-5 degree): sign kept also when the rounded magnitude
\* is zero, magnitude correctly rounded from the binary float.
Fmt4(x) ==
    LET r == Round4(Abs(x))
    IN  (IF x < 0 THEN "-" ELSE "") \o ToString(r \div 10000) \o "."
        \o Digit(r, 1000) \o Digit(r, 100) \o Digit(r, 10) \o Digit(r, 1)

\* f"({lat:.4f} {lon:.4f})"
SampleKey(lat, lon) == "(" \o Fmt4(lat) \o " " \o Fmt4(lon) \o ")"

WavelengthsKey == "wavelengths"

\* A float in the coordinate range (0 or 1e-5 .. 360 degrees in magnitude)
\* is held exactly, as its magnitude times 2^78 in FloatLimbs base-Limb
\* digits, least significant first.
Limb == 8192
LimbBits == 13
FloatLimbs == 7

\* the first n base-Limb digits of r / 100000 after the point, for
\* r < 100000, and what is left over after them
RECURSIVE FracLimbs(_, _)
FracLimbs(r, n) ==
    IF n = 0 THEN <<>>
    ELSE FracLimbs((r * Limb) % 100000, n - 1) \o <<(r * Limb) \div 100000>>

RECURSIVE FracRem(_, _)
FracRem(r, n) == IF n = 0 THEN r ELSE FracRem((r * Limb) % 100000, n - 1)

BitLenLimb(v) == CHOOSE n \in 0..LimbBits : v < 2^n /\ (n = 0 \/ v >= 2^(n - 1))

\* number of significant bits of a
BitLen(a) ==
    IF \A i \in 1..Len(a) : a[i] = 0 THEN 0
    ELSE LET t == CHOOSE i \in 1..Len(a) :
                      a[i] # 0 /\ \A j \in (i + 1)..Len(a) : a[j] = 0
         IN  LimbBits * (t - 1) + BitLenLimb(a[t])

\* a < b
Less(a, b) ==
    \E i \in 1..Len(a) :
        a[i] < b[i] /\ \A j \in (i + 1)..Len(a) : a[j] = b[j]

\* a + b + carry
RECURSIVE AddC(_, _, _)
AddC(a, b, carry) ==
    IF a = <<>> THEN <<>>
    ELSE LET sum == Head(a) + Head(b) + carry
         IN  <<sum % Limb>> \o AddC(Tail(a), Tail(b), sum \div Limb)

\* a - b - borrow, for a >= b
RECURSIVE SubB(_, _, _)
SubB(a, b, borrow) ==
    IF a = <<>> THEN <<>>
    ELSE LET d == Head(a) - Head(b) - borrow
         IN  <<d % Limb>> \o SubB(Tail(a), Tail(b), IF d < 0 THEN 1 ELSE 0)

\* the low t bits of a
Low(a, t) ==
    [i \in 1..Len(a) |->
        IF LimbBits * i <= t THEN a[i]
        ELSE IF LimbBits * (i - 1) >= t THEN 0
        ELSE a[i] % 2^(t - LimbBits * (i - 1))]

\* 2^t
Pow2(t) ==
    [i \in 1..FloatLimbs |->
        IF LimbBits * (i - 1) <= t /\ t < LimbBits * i
        THEN 2^(t - LimbBits * (i - 1)) ELSE 0]

\* bit t of a
Bit(a, t) == (a[(t \div LimbBits) + 1] \div 2^(t % LimbBits)) % 2

\* a (plus a fraction below its last bit when sticky) rounded to the
\* nearest value with 53 significant bits, ties to even: IEEE-754 binary64
\* round-to-nearest
Round53(a, sticky) ==
    IF BitLen(a) <= 53 THEN a
    ELSE LET t == BitLen(a) - 53
             low == Low(a, t)
             half == Pow2(t - 1)
             roundUp == \/ Less(half, low)
                        \/ (low = half /\ (sticky \/ Bit(a, t) = 1))
             trunc == SubB(a, low, 0)
         IN  IF roundUp THEN AddC(trunc, Pow2(t), 0) ELSE trunc

\* the float64 nearest to k / 100000, for 0 <= k <= 18000000
Float64(k) ==
    Round53(FracLimbs(k % 100000, FloatLimbs - 1) \o <<k \div 100000>>,
            FracRem(k % 100000, FloatLimbs - 1) # 0)

\* abs(a - b) in float64 arithmetic, a and b in 1e-5 degree: the exact
\* difference of the two floats, rounded
Distance(a, b) ==
    LET fa == Float64(Abs(a))
        fb == Float64(Abs(b))
        exact == IF a = 0 \/ b = 0 \/ (a < 0) = (b < 0)
                 THEN (IF Less(fa, fb) THEN SubB(fb, fa, 0) ELSE SubB(fa, fb, 0))
                 ELSE AddC(fa, fb, 0)
    IN  Round53(exact, FALSE)

\* index of the coordinate nearest to x (method="nearest") in an ascending
\* grid: the neighbour at or below x when its float64 distance to x is
\* strictly the smaller one, the neighbour at or above x otherwise
Nearest(grid, x) ==
    LET n == Len(grid)
        left == IF \E i \in 1..n : grid[i] <= x
                THEN CHOOSE i \in 1..n :
                         grid[i] <= x /\ \A j \in (i + 1)..n : grid[j] > x
                ELSE 0
        right == IF \E i \in 1..n : grid[i] >= x
                 THEN CHOOSE i \in 1..n :
                          grid[i] >= x /\ \A j \in 1..(i - 1) : grid[j] < x
                 ELSE 0
    IN  IF right = 0 THEN left
        ELSE IF left = 0 THEN right
        ELSE IF Less(Distance(grid[left], x), Distance(grid[right], x))
             THEN left
        ELSE right

\* the grid cell ds.sel(latitude=lat, longitude=lon, method="nearest") picks
NearestCell(lat, lon) == <<Nearest(GridLat, lat), Nearest(GridLon, lon)>>

\* NearestCell of every point the user may click, evaluated once
ClickCell == [pt \in ClickPoints |-> NearestCell(pt[1], pt[2])]

SelCell(lat, lon) ==
    IF <<lat, lon>> \in ClickPoints THEN ClickCell[<<lat, lon>>]
    ELSE NearestCell(lat, lon)

IsNegative(v) == v # NaN /\ v < 0

\* da[da < 0] = np.nan
MaskNegative(a) == [i \in 1..Len(a) |-> IF IsNegative(a[i]) THEN NaN ELSE a[i]]

\* What ends up under the sample key: da.values is stored first and da is
\* masked in place afterwards, so the stored array shows the mask exactly
\* when it is the buffer the mask is written to.
StoredValues(raw, shared) == IF shared THEN MaskNegative(raw) ELSE raw

\* if "wavelengths" not in _spectral_data: _spectral_data["wavelengths"] = ...
AlwaysWriteWavelengths(d, l) == MapPut(d, WavelengthsKey, Wavelengths(l))
WriteWavelengths(d, l) ==
    IF WavelengthsKey \in DOMAIN d THEN d
    ELSE MapPut(d, WavelengthsKey, Wavelengths(l))

Plot(x, y) == [kind |-> "plot", x |-> x, y |-> y]
Traceback == [kind |-> "traceback", x |-> <<>>, y |-> <<>>]

\* leaving "with self._output_widget:" on an exception: under an IPython
\* kernel the traceback is shown in the panel and the exception is
\* suppressed, otherwise it leaves the handler
PanelAfterFault(inIPython) == IF inIPython THEN <<Traceback>> ELSE <<>>

----------------------------------------------------------------------------
(* Host map operations the widget calls *)

OnMap(ctrls, c) == \E i \in 1..Len(ctrls) : ctrls[i] = c

\* host_map.add(control)
AddControl(ctrls, c) == Append(ctrls, c)

\* host_map.remove_control(control) on a control that is on the map
RemoveControl(ctrls, c) == SelectSeq(ctrls, LAMBDA x : x # c)

----------------------------------------------------------------------------
(* State after SpectralWidget(host_map) on a host map with no markers *)

Init ==
    /\ shares \in BOOLEAN
    /\ reflectance = InitialReflectance
    /\ layer = "A"
    /\ subscribed = TRUE
    /\ controls = <<OutputControl, SpectralControl>>
    /\ cursor = "grab"
    /\ hasCluster \in BOOLEAN
    /\ clusterMarkers = <<>>
    /\ hasPlotMarkers = FALSE
    /\ plotMarkers = <<>>
    /\ spectralData = EmptyMap
    /\ sampleLayer = EmptyMap
    /\ panel = <<>>
    /\ self = [output_widget |-> TRUE, output_control |-> TRUE,
               spectral_control |-> TRUE, spectral_widget |-> TRUE]
    /\ onCloseSet = FALSE
    /\ choosers = 0
    /\ closedChoosers = {}
    /\ fileChooser = 0
    /\ fileChooserControl = -1
    /\ clicks = 0
    /\ last = Op("init", "none", NoPoint, 0, NoSelection)

----------------------------------------------------------------------------
(* layers_widget: the user picks another layer *)

SelectLayer(l) ==
    /\ l # layer
    /\ layer' = l
    /\ last' = Op("select", "none", NoPoint, 0, NoSelection)
    /\ UNCHANGED <<envVars, markerVars, dataVars, chooserVars,
                   subscribed, controls, cursor, panel, self, onCloseSet, clicks>>

\* the caller assigns widget.on_close
SetOnClose ==
    /\ ~onCloseSet
    /\ onCloseSet' = TRUE
    /\ last' = Op("set_on_close", "none", NoPoint, 0, NoSelection)
    /\ UNCHANGED <<envVars, markerVars, dataVars, chooserVars, layer,
                   subscribed, controls, cursor, panel, self, clicks>>

----------------------------------------------------------------------------
(* handle_interaction: the host map delivers an interaction event to the   *)
(* subscribed handler.                                                     *)

CrosshairCursor(c) == "crosshair"
\* the cursor hint after an event whose type is not "click": line 169 is
\* inside the "if", so it is left alone
CursorAfterOtherEvent(c) == c

AppendedPlot(old, p) == Append(old, p)
\* clear_output() ... plt.show(): the panel holds the new plot alone
ShownPlot(old, p) == <<p>>

StaleCluster(old, markers) == old
\* marker_cluster.markers = markers
AssignCluster(old, markers) == markers

WavelengthsBeforeFault(d, l) == WriteWavelengths(d, l)
\* the mapping after a click that faults at the cluster lookup or at the
\* selection: both come before the first write to it
DataAfterFault(d, l) == d

\* the handler body for type == "click"
HandleClick(pt) ==
    LET lat == pt[1]
        lon == pt[2]
        markers == IF hasPlotMarkers THEN plotMarkers ELSE <<>>
        noCluster == ~hasCluster
        noVariable == ~HasReflectance(layer)
        fault == noCluster \/ noVariable
        cell == SelCell(lat, lon)
        raw == reflectance[layer][cell]
        masked == MaskNegative(raw)
        key == SampleKey(lat, lon)
    IN  /\ hasPlotMarkers' = TRUE
        /\ UNCHANGED hasCluster
        /\ IF noCluster
           THEN /\ plotMarkers' = markers
                /\ UNCHANGED clusterMarkers
           ELSE /\ plotMarkers' = Append(markers, pt)
                /\ clusterMarkers' =
                      AssignCluster(clusterMarkers, Append(markers, pt))
        /\ IF fault
           THEN /\ spectralData' = DataAfterFault(spectralData, layer)
                /\ UNCHANGED <<sampleLayer, reflectance>>
                /\ \E inIPython \in BOOLEAN :
                      /\ panel' = PanelAfterFault(inIPython)
                      /\ cursor' = IF inIPython THEN "crosshair" ELSE cursor
                      /\ last' = Op("click", IF inIPython THEN "shown"
                                             ELSE "raised", pt, 0, NoSelection)
           ELSE /\ spectralData' =
                      MapPut(WriteWavelengths(spectralData, layer), key,
                             StoredValues(raw, shares))
                /\ sampleLayer' = MapPut(sampleLayer, key, layer)
                /\ reflectance' =
                      IF shares
                      THEN [reflectance EXCEPT ![layer][cell] = masked]
                      ELSE reflectance
                /\ panel' = ShownPlot(panel, Plot(Wavelengths(layer), masked))
                /\ cursor' = "crosshair"
                /\ last' = Op("click", "none", pt, 0, NoSelection)

MapInteraction(type, pt) ==
    /\ subscribed
    /\ IF type = "click"
       THEN /\ clicks < MaxClicks
            /\ clicks' = clicks + 1
            /\ IF self.output_widget
               THEN HandleClick(pt)
               ELSE \* "with None:" raises before anything is touched
                    /\ last' = Op("click", "raised", pt, 0, NoSelection)
                    /\ UNCHANGED <<markerVars, dataVars, panel, cursor>>
       ELSE /\ last' = Op(type, "none", NoPoint, 0, NoSelection)
            /\ cursor' = CursorAfterOtherEvent(cursor)
            /\ UNCHANGED <<markerVars, dataVars, panel, clicks>>
    /\ UNCHANGED <<envVars, chooserVars, layer, subscribed,
                   controls, self, onCloseSet>>

\* an interaction event on the host map while no handler is subscribed
Undelivered(type, pt) ==
    /\ ~subscribed
    /\ last' = Op("undelivered", "none", NoPoint, 0, NoSelection)
    /\ UNCHANGED <<envVars, markerVars, dataVars, chooserVars,
                   layer, subscribed, controls, cursor, panel, self,
                   onCloseSet, clicks>>

----------------------------------------------------------------------------
(* reset_btn_click *)

\* hasattr(host_map, "_spectral_data"): set by the constructor if absent
HasSpectralData == TRUE

KeepSamples(d) == d
KeepWavelengths(d) == [k \in (DOMAIN d) \cap {WavelengthsKey} |-> d[k]]
\* self._host_map._spectral_data = {}
ClearedSamples(d) == EmptyMap

\* ._plot_marker_cluster.markers = [] ; ._plot_markers = []
ClearedMarkers(m) == <<>>

ResetClick ==
    /\ IF hasCluster
       THEN /\ clusterMarkers' = ClearedMarkers(clusterMarkers)
            /\ plotMarkers' = ClearedMarkers(plotMarkers)
            /\ hasPlotMarkers' = TRUE
            /\ UNCHANGED hasCluster
       ELSE UNCHANGED markerVars
    /\ IF HasSpectralData
       THEN /\ spectralData' = ClearedSamples(spectralData)
            /\ sampleLayer' = EmptyMap
       ELSE UNCHANGED <<spectralData, sampleLayer>>
    /\ IF self.output_widget
       THEN /\ panel' = <<>>
            /\ last' = Op("reset", "none", NoPoint, 0, NoSelection)
       ELSE /\ UNCHANGED panel
            /\ last' = Op("reset", "raised", NoPoint, 0, NoSelection)
    /\ UNCHANGED <<envVars, chooserVars, reflectance, layer,
                   subscribed, controls, cursor, self, onCloseSet, clicks>>

----------------------------------------------------------------------------
(* save_btn_click and chooser_callback *)

SaveClick ==
    /\ choosers < MaxChoosers
    /\ IF ~HasSpectralData
       THEN /\ last' = Op("save", "none", NoPoint, 0, NoSelection)
            /\ UNCHANGED <<panel, controls, chooserVars>>
       ELSE IF ~self.output_widget
       THEN /\ last' = Op("save", "raised", NoPoint, 0, NoSelection)
            /\ UNCHANGED <<panel, controls, chooserVars>>
       ELSE /\ panel' = <<>>
            /\ choosers' = choosers + 1
            /\ controls' = AddControl(controls, ChooserControl(choosers + 1))
            /\ fileChooser' = choosers + 1
            /\ fileChooserControl' = ChooserControl(choosers + 1)
            /\ UNCHANGED closedChoosers
            /\ last' = Op("save", "none", NoPoint, choosers + 1, NoSelection)
    /\ UNCHANGED <<envVars, markerVars, dataVars, layer, subscribed,
                   cursor, self, onCloseSet, clicks>>

\* chooser c, still shown on the map, calls back with chooser.selected = sel
ChooserCallback(c, sel) ==
    /\ c \in 1..choosers
    /\ c \notin closedChoosers
    /\ OnMap(controls, ChooserControl(c))
    /\ IF sel = NoSelection
       THEN /\ last' = OpChooser(c, sel, NoSelection)
            /\ UNCHANGED <<controls, closedChoosers>>
       ELSE /\ last' = OpChooser(c, sel, sel)
            /\ IF fileChooserControl # -1 /\ OnMap(controls, fileChooserControl)
               THEN /\ controls' = RemoveControl(controls, fileChooserControl)
                    /\ closedChoosers' = closedChoosers \cup {fileChooser}
               ELSE UNCHANGED <<controls, closedChoosers>>
    /\ UNCHANGED <<envVars, markerVars, dataVars, layer, subscribed,
                   cursor, panel, self, onCloseSet, choosers, fileChooser,
                   fileChooserControl, clicks>>

----------------------------------------------------------------------------
(* cleanup(), also run by the close button (close_widget) *)

StaySubscribed(s) == s
\* host_map.on_interaction(self._on_map_interaction, remove=True)
OnInteractionRemove(s) == FALSE

KeepSpectralControl(ctrls) == ctrls
\* host_map.remove_control(self._spectral_control)
RemoveSpectralControl(ctrls) == RemoveControl(ctrls, SpectralControl)

\* what an on_close() callback finds when it is invoked
CloseView(sub, ctrls, pm, cm, sd) ==
    [subscribed |-> sub,
     outputOnMap |-> OnMap(ctrls, OutputControl),
     spectralOnMap |-> OnMap(ctrls, SpectralControl),
     markers |-> Len(pm) + Len(cm),
     samples |-> Cardinality(DOMAIN sd)]

Cleanup ==
    /\ cursor' = "default"
    /\ subscribed' = OnInteractionRemove(subscribed)
    /\ \E hostStrict \in BOOLEAN :
       LET askOutput == self.output_control
           askSpectral == self.spectral_control
           \* remove_control on a control that is not on the map raises
           \* on a host that checks (hostStrict), else changes nothing
           faultOutput == /\ askOutput
                          /\ ~OnMap(controls, OutputControl)
                          /\ hostStrict
           ctrls1 == IF askOutput THEN RemoveControl(controls, OutputControl)
                     ELSE controls
           self1 == IF askOutput /\ self.output_widget
                    THEN [self EXCEPT !.output_widget = FALSE]
                    ELSE self
           asked1 == IF askOutput THEN <<OutputControl>> ELSE <<>>
           faultSpectral == /\ askSpectral
                            /\ ~OnMap(ctrls1, SpectralControl)
                            /\ hostStrict
           ctrls2 == IF askSpectral THEN RemoveSpectralControl(ctrls1)
                     ELSE ctrls1
           self2 == IF askSpectral
                    THEN [self1 EXCEPT !.spectral_control = FALSE,
                                       !.spectral_widget = FALSE]
                    ELSE self1
           asked2 == IF askSpectral THEN Append(asked1, SpectralControl)
                     ELSE asked1
           pm == IF hasCluster THEN ClearedMarkers(plotMarkers)
                 ELSE plotMarkers
           cm == IF hasCluster THEN ClearedMarkers(clusterMarkers)
                 ELSE clusterMarkers
           sd == IF HasSpectralData THEN ClearedSamples(spectralData)
                 ELSE spectralData
       IN  IF faultOutput
           THEN /\ last' = OpClose("raised", asked1, 0, NoView)
                /\ UNCHANGED <<controls, self, markerVars, spectralData,
                               sampleLayer, panel>>
           ELSE IF faultSpectral
           THEN /\ controls' = ctrls1
                /\ self' = self1
                /\ last' = OpClose("raised", asked2, 0, NoView)
                /\ UNCHANGED <<markerVars, spectralData, sampleLayer, panel>>
           ELSE /\ controls' = ctrls2
                /\ self' = self2
                /\ plotMarkers' = pm
                /\ clusterMarkers' = cm
                /\ hasPlotMarkers' = (hasCluster \/ hasPlotMarkers)
                /\ UNCHANGED hasCluster
                /\ spectralData' = sd
                /\ sampleLayer' = IF HasSpectralData THEN EmptyMap
                                  ELSE sampleLayer
                /\ panel' = IF self2.output_widget THEN <<>> ELSE panel
                /\ last' = IF onCloseSet
                           THEN OpClose("none", asked2, 1,
                                  CloseView(subscribed', ctrls2, pm, cm, sd))
                           ELSE OpClose("none", asked2, 0, NoView)
    /\ UNCHANGED <<envVars, chooserVars, reflectance, layer, onCloseSet,
                   clicks>>

----------------------------------------------------------------------------
Next ==
    \/ \E l \in LayerNames : SelectLayer(l)
    \/ SetOnClose
    \/ \E t \in EventTypes, pt \in ClickPoints : MapInteraction(t, pt)
    \/ \E t \in EventTypes, pt \in ClickPoints : Undelivered(t, pt)
    \/ ResetClick
    \/ SaveClick
    \/ \E c \in 1..MaxChoosers, sel \in Paths \cup {NoSelection} :
          ChooserCallback(c, sel)
    \/ Cleanup

Spec == Init /\ [][Next]_vars

----------------------------------------------------------------------------
(* Vocabulary of the properties *)

Samples == (DOMAIN spectralData) \ {WavelengthsKey}
OverlaysOnMap == OnMap(controls, OutputControl) /\ OnMap(controls, SpectralControl)
OverlaysOffMap == ~OnMap(controls, OutputControl) /\ ~OnMap(controls, SpectralControl)
\* cleanup() has run to the point of releasing the widget's own control
Closed == ~self.spectral_control
InteractionOps == {"click", "mousemove", "undelivered"}

----------------------------------------------------------------------------
\* C1: a Close on an Active widget leaves neither overlay control on the
\* host map's control list and the handler unsubscribed; every map
\* interaction after a Close reaches no handler and changes neither the
\* output panel, nor the markers, nor the sample mapping.
C1_CloseDetachesAndUnsubscribes ==
    [][ /\ (subscribed /\ last'.op = "close")
            => (OverlaysOffMap' /\ ~subscribed')
        /\ (Closed /\ last'.op \in InteractionOps)
            => /\ last'.op = "undelivered"
               /\ UNCHANGED <<panel, plotMarkers, clusterMarkers, spectralData>>
      ]_vars

C1_Witness ==
    /\ last.op = "undelivered"
    /\ Closed
    /\ OverlaysOffMap
    /\ clicks > 0

\* C2 (as claimed): a Save pressed while the sample mapping holds no sample
\* adds no control, sets no _file_chooser / _file_chooser_control and leaves
\* the output panel alone.
C2_SaveWithoutSamplesIsNoOp ==
    [][ (last'.op = "save" /\ Samples = {})
            => UNCHANGED <<controls, fileChooser, fileChooserControl, panel>>
      ]_vars

\* C3: right after a Reset on an Active widget the sample mapping is empty
\* (no wavelengths entry either), the marker list and the cluster's markers
\* are empty, the output panel is cleared, and the Reset did not fault.
C3_ResetClears ==
    (last.op = "reset" /\ subscribed)
        => /\ spectralData = EmptyMap
           /\ plotMarkers = <<>>
           /\ clusterMarkers = <<>>
           /\ panel = <<>>
           /\ last.fault = "none"

C3_Witness ==
    /\ last.op = "reset"
    /\ subscribed
    /\ hasCluster
    /\ hasPlotMarkers
    /\ clicks = MaxClicks
    /\ choosers > 0

\* C4 (as claimed): right after a completed click the sample mapping holds
\* the 4-decimal key of the click, and the value under it is the
\* nearest-neighbour selection with every negative entry replaced by NaN.
C4_StoredSampleIsMasked ==
    (last.op = "click" /\ last.fault = "none")
        => /\ SampleKey(last.pt[1], last.pt[2]) \in DOMAIN spectralData
           /\ spectralData[SampleKey(last.pt[1], last.pt[2])]
                = MaskNegative(reflectance[layer][SelCell(last.pt[1], last.pt[2])])

\* C5: a click that finds a wavelengths entry leaves it as it is, and a
\* completed click that finds none writes the selected layer's wavelengths.
C5_WavelengthsWrittenOnce ==
    [][ (last'.op = "click")
            => /\ (WavelengthsKey \in DOMAIN spectralData)
                    => /\ WavelengthsKey \in DOMAIN spectralData'
                       /\ spectralData'[WavelengthsKey]
                            = spectralData[WavelengthsKey]
               /\ (WavelengthsKey \notin DOMAIN spectralData
                   /\ last'.fault = "none")
                    => /\ WavelengthsKey \in DOMAIN spectralData'
                       /\ spectralData'[WavelengthsKey] = Wavelengths(layer)
      ]_vars

\* a second click without a Reset in between, after the selector moved to a
\* layer with another wavelength axis
C5_Witness ==
    /\ last.op = "click"
    /\ last.fault = "none"
    /\ Cardinality(Samples) = 2
    /\ WavelengthsKey \in DOMAIN spectralData
    /\ spectralData[WavelengthsKey] # Wavelengths(layer)

\* C6 (as claimed): a chooser callback with a selection calls
\* spectral_to_csv with that path and leaves that chooser's control off the
\* control list; a callback without selection exports and removes nothing.
C6_ConfirmedChooserIsRemoved ==
    [][ (last'.op = "chooser")
            => IF last'.sel # NoSelection
               THEN /\ last'.exported = last'.sel
                    /\ ~OnMap(controls', ChooserControl(last'.ch))
               ELSE /\ last'.exported = NoSelection
                    /\ UNCHANGED controls
      ]_vars

\* C7: the widget is either Active (subscribed, both overlay controls on
\* the map) or Closed (unsubscribed, both off the map); it leaves Active
\* only by a Close, and no step subscribes the handler or attaches an
\* overlay control again.
C7_TwoLifecycleStates ==
    [][ /\ \/ (subscribed' /\ OverlaysOnMap')
           \/ (~subscribed' /\ OverlaysOffMap')
        /\ (subscribed /\ ~subscribed') => last'.op = "close"
        /\ ~subscribed => ~subscribed'
      ]_vars

C7_Witness ==
    /\ Closed
    /\ ~subscribed
    /\ OverlaysOffMap
    /\ last.op = "chooser"
    /\ last.sel # NoSelection

\* C8 (as claimed): a Close on a widget that was closed before does not
\* raise and asks the host map to remove no overlay control again.
C8_SecondCloseSkipsEverything ==
    [][ (Closed /\ last'.op = "close")
            => (last'.fault = "none" /\ last'.asked = <<>>)
      ]_vars

\* C9 (as claimed): right after any Close the markers and the sample
\* mapping are empty and the cursor is "default"; on_close ran exactly once
\* if it is set and not at all if it is None, and it found the handler
\* unsubscribed, both controls removed and markers and samples cleared.
C9_CloseClearsThenNotifies ==
    (last.op = "close")
        => /\ plotMarkers = <<>>
           /\ clusterMarkers = <<>>
           /\ spectralData = EmptyMap
           /\ cursor = "default"
           /\ last.notified = (IF onCloseSet THEN 1 ELSE 0)
           /\ (last.notified > 0)
                => /\ ~last.view.subscribed
                   /\ ~last.view.outputOnMap
                   /\ ~last.view.spectralOnMap
                   /\ last.view.markers = 0
                   /\ last.view.samples = 0

\* C10 (as claimed): the wavelengths entry is the wavelength coordinate of
\* the dataset every sample in the mapping was taken from.
C10_SamplesShareWavelengths ==
    \A k \in Samples :
        /\ WavelengthsKey \in DOMAIN spectralData
        /\ spectralData[WavelengthsKey] = Wavelengths(sampleLayer[k])

\* C11: an interaction event whose type is not "click" leaves the marker
\* list, the marker cluster, the sample mapping, the output panel, the
\* host's control list and the cursor hint as they were.
C11_OtherEventsChangeNothing ==
    [][ (last'.op \in EventTypes \ {"click"})
            => UNCHANGED <<hasPlotMarkers, plotMarkers, clusterMarkers,
                           spectralData, panel, controls, cursor>>
      ]_vars

\* a mousemove over a map that holds a sample, its plot and the crosshair
C11_Witness ==
    /\ last.op = "mousemove"
    /\ Samples # {}
    /\ Len(panel) = 1
    /\ cursor = "crosshair"

\* C12 (as claimed): right after any click on an Active widget the panel
\* holds exactly one plot and the cursor hint is "crosshair".
C12_EveryClickLeavesOnePlot ==
    (last.op = "click")
        => /\ Len(panel) = 1
           /\ panel[1].kind = "plot"
           /\ cursor = "crosshair"

\* C12 (amended): right after a click handled without a fault the panel
\* holds exactly one plot, that of this click (the selected layer's
\* wavelengths against the masked selection), and the cursor hint is
\* "crosshair".
C12_CompletedClickLeavesItsPlot ==
    (last.op = "click" /\ last.fault = "none")
        => /\ panel = <<Plot(Wavelengths(layer),
                             MaskNegative(reflectance[layer]
                                 [SelCell(last.pt[1], last.pt[2])]))>>
           /\ cursor = "crosshair"

\* the second of two completed clicks
C12_Witness ==
    /\ last.op = "click"
    /\ last.fault = "none"
    /\ Len(plotMarkers) = 2
    /\ Cardinality(Samples) = 2

\* C13 (as claimed): a click that faults lets the fault leave the handler
\* and leaves the sample mapping as it was.
C13_FaultPropagatesAndRecordsNothing ==
    [][ (last'.op = "click" /\ last'.fault # "none")
            => (last'.fault = "raised" /\ UNCHANGED spectralData)
      ]_vars

\* C13 (amended): a click that faults leaves the sample mapping as it was,
\* whether the fault leaves the handler or the output widget shows it.
C13_FaultRecordsNothing ==
    [][ (last'.op = "click" /\ last'.fault # "none")
            => UNCHANGED spectralData
      ]_vars

\* a faulting click on a map that holds a sample already
C13_Witness ==
    /\ last.op = "click"
    /\ last.fault # "none"
    /\ Samples # {}

\* C14 (as claimed): right after a Close that ran through, no control this
\* widget added is on the control list: neither overlay control nor the
\* control of any file chooser opened by Save.
C14_CloseRemovesEveryControl ==
    (last.op = "close" /\ last.fault = "none")
        => /\ OverlaysOffMap
           /\ \A c \in 1..choosers : ~OnMap(controls, ChooserControl(c))

\* C15 (as claimed): there are never more sample keys than markers; every
\* click adds exactly one marker; a completed click leaves one entry under
\* its key, holding its values.
C15_EveryClickAddsAMarker ==
    [][ /\ Cardinality(Samples') <= Len(plotMarkers')
        /\ (last'.op = "click")
            => Len(plotMarkers') = Len(plotMarkers) + 1
        /\ (last'.op = "click" /\ last'.fault = "none")
            => /\ Samples' = Samples \cup {SampleKey(last'.pt[1], last'.pt[2])}
               /\ spectralData'[SampleKey(last'.pt[1], last'.pt[2])]
                    = StoredValues(
                        reflectance[layer][SelCell(last'.pt[1], last'.pt[2])],
                        shares)
      ]_vars

\* C15 (amended): there are never more sample keys than markers; every
\* click on a host map that has the marker cluster adds exactly one marker
\* (without the cluster the click faults before adding one); a completed
\* click leaves one entry under its key, holding its values.
C15_SamplesNeverExceedMarkers ==
    [][ /\ Cardinality(Samples') <= Len(plotMarkers')
        /\ (last'.op = "click")
            => Len(plotMarkers') = Len(plotMarkers) + (IF hasCluster THEN 1 ELSE 0)
        /\ (last'.op = "click" /\ last'.fault = "none")
            => /\ Samples' = Samples \cup {SampleKey(last'.pt[1], last'.pt[2])}
               /\ spectralData'[SampleKey(last'.pt[1], last'.pt[2])]
                    = StoredValues(
                        reflectance[layer][SelCell(last'.pt[1], last'.pt[2])],
                        shares)
      ]_vars

\* two clicks at different points whose coordinates format to the same key
C15_Witness ==
    /\ last.op = "click"
    /\ last.fault = "none"
    /\ Len(plotMarkers) = 2
    /\ plotMarkers[1] # plotMarkers[2]
    /\ Cardinality(Samples) = 1

\* C16: whenever the host map has both, the marker cluster's markers are
\* the markers of the marker list.
C16_ClusterShowsMarkerList ==
    (hasCluster /\ hasPlotMarkers) => clusterMarkers = plotMarkers

\* a faulted click after a completed one, both markers on the map
C16_Witness ==
    /\ last.op = "click"
    /\ last.fault # "none"
    /\ hasCluster
    /\ Len(clusterMarkers) = 2

====
